---- MODULE Spec2Model ----
(***************************************************************************)
(* losgodis: a string interning pool (string_pool.hpp / string_pool.cpp)   *)
(* and a UTF-8 validator (utf8.hpp / utf8.cpp).                            *)
(*                                                                         *)
(* Memory is modelled as regions of bytes.  An address is a record         *)
(* [region, off]: region 0 is the static storage that holds the string     *)
(* literals, region k >= 1 is the buffer_ of the k-th fixed_page that was  *)
(* allocated.  The page chain page_ -> previousPage_ -> ... is the         *)
(* sequence page_, oldest page first; the pool's page_ pointer is its last *)
(* element.                                                                *)
(***************************************************************************)
EXTENDS Integers, Sequences, FiniteSets, TLC

(* ------------------------------ bounds --------------------------------- *)

\* page_size of string_pool.hpp:46 (4096 there), scaled down so that page
\* rollover happens after two or three strings.
page_size == 4

\* Strings handed to one pool: constructor list elements plus get_string calls.
MaxCalls == 3

\* Longest byte_range handed to the validators.
MaxInput == 5

\* Longest sequence of scalar values that is encoded and handed to them.
MaxScalars == 2

(* --------------------------- small helpers ----------------------------- *)

RECURSIVE BitXor(_, _)
\* a ^ b on naturals
BitXor(a, b) ==
    IF a = 0 THEN b
    ELSE IF b = 0 THEN a
    ELSE (((a % 2) + (b % 2)) % 2) + 2 * BitXor(a \div 2, b \div 2)

RECURSIVE BitAnd(_, _)
\* a & b on naturals
BitAnd(a, b) ==
    IF a = 0 \/ b = 0 THEN 0
    ELSE ((a % 2) * (b % 2)) + 2 * BitAnd(a \div 2, b \div 2)

RECURSIVE BitOr(_, _)
\* a | b on naturals
BitOr(a, b) ==
    IF a = 0 THEN b
    ELSE IF b = 0 THEN a
    ELSE (IF (a % 2) = 1 \/ (b % 2) = 1 THEN 1 ELSE 0) + 2 * BitOr(a \div 2, b \div 2)

\* All sequences over S of length 0..n
SeqsUpTo(S, n) == UNION {[1..k -> S] : k \in 0..n}

(* ------------------------------ hashing -------------------------------- *)

\* detail::hash is FNV-1a over size_t.  Xor and multiplication modulo 2^64
\* commute with taking the low 16 bits, so the value below is exactly the
\* low 16 bits of the 64-bit hash: 435 and 8997 are the low 16 bits of the
\* prime 1099511628211 and of the offset 14695981039346656037.
hash_width == 65536
hash_prime == 435
hash_offset == 8997

RECURSIVE hash_from(_, _, _)
hash_from(h, data, i) ==
    IF i > Len(data) THEN h
    ELSE hash_from((BitXor(h, data[i]) * hash_prime) % hash_width, data, i + 1)

hash(data) == hash_from(hash_offset, data, 1)

\* Arithmetic on size_t is modular; as for hash, the model keeps the low
\* bits of the 64.
size_t(x) == x % hash_width

(* ------------------------------ memory --------------------------------- *)

\* A byte of a fixed_page buffer_ that was never written (the buffer is
\* default-initialised, its bytes are indeterminate).
Uninit == -1

\* Static storage of the program's string literals, each with its
\* terminator: "ab\0" at offset 0, "a\0" at offset 3, a second "a\0" at
\* offset 5.  "b" and "" are literals the linker merged into the tail of
\* "ab\0".
StaticMem == <<97, 98, 0, 97, 0, 97, 0>>

Addr(r, o) == [region |-> r, off |-> o]

\* The byte stored at an address, given the page chain.
ByteAt(pages, a) ==
    IF a.region = 0 THEN StaticMem[a.off + 1]
    ELSE pages[a.region].buffer[a.off + 1]

\* std::string_view{data, size} read as a byte sequence.
View(pages, data, size) ==
    [k \in 1..size |-> ByteAt(pages, Addr(data.region, data.off + k - 1))]

(* ------------------------- string_pool.hpp ----------------------------- *)

\* Bytes a caller's string is made of.
Chars == {97, 98}

\* Contents handed to the copying overloads of get_string.  page_size
\* "needs to be atleast large enough to hold biggest string": a content and
\* its terminator fit a fresh page, (size + 1) < page_size.
Contents == SeqsUpTo(Chars, page_size - 2)

\* Strings of page_size - 1 bytes and more, which a fresh page cannot hold.
TooLong == {[k \in 1..n |-> 97] : n \in (page_size - 1)..(page_size + 1)}

\* The address of memory owned by the caller of a copying overload: it is
\* neither static storage nor a page, and is gone when the call returns.
Transient == Addr(-1, 0)

\* string_key{string_view}: the view (where it points, its size, the bytes
\* seen through it) and the hash the constructor computes from them.
string_key(bytes) ==
    [data |-> Transient, size |-> Len(bytes), bytes |-> bytes, hash |-> hash(bytes)]

\* operator"" _key: a string_literal, whose key_ views the literal's own
\* storage at StaticMem offset off.
operator_key(off, size) ==
    LET bytes == View(<<>>, Addr(0, off), size)
    IN  [data |-> Addr(0, off), size |-> size, bytes |-> bytes, hash |-> hash(bytes)]

\* The string literals of the program: "ab", "b", "", "a" and a second "a"
\* stored elsewhere.
Literals ==
    << operator_key(0, 2), operator_key(1, 1), operator_key(2, 0),
       operator_key(3, 1), operator_key(5, 1) >>

\* fixed_string{s, size}
fixed_string(s, size) == [data |-> s, size |-> size]

\* What a call that returns no handle leaves in call.ret.
NoHandle == fixed_string(Transient, 0)

\* operator==(fixed_string, fixed_string)
fixed_string_eq(a, b) == a.data = b.data

\* An element of map_: a string_key whose view is backed by stable memory.
entry(data, size, h) == [data |-> data, size |-> size, hash |-> h]

\* operator==(string_key a, string_key b), a a lookup key and b an element
\* of map_: a.view() == b.view().
key_equal_ptr(pages, a, b) == a.data = b.data /\ a.size = b.size

key_equal(pages, a, b) == a.bytes = View(pages, b.data, b.size)

\* map_.find(key): the elements in the bucket of key.hash() that are equal
\* to key (at most one).
find(map, pages, key) ==
    {e \in map : e.hash = key.hash /\ key_equal(pages, key, e)}

fixed_page_one_short ==
    [buffer |-> [j \in 1..page_size |-> Uninit], remaining |-> page_size - 1]

\* fixed_page::fixed_page(previousPage): the new page is appended to the
\* chain, its buffer_ is not initialised.
fixed_page == [buffer |-> [j \in 1..page_size |-> Uninit], remaining |-> page_size]

can_hold_exact_fit(page, size) == (size + 1) <= page.remaining

\* fixed_page::can_hold
can_hold(page, size) == (size + 1) < page.remaining

\* fixed_page::push_back: the new page state and the start offset in buffer_.
push_back_no_advance(page, key) ==
    LET size  == key.size
        start == 0
    IN  [page  |-> [buffer |-> [j \in 1..page_size |->
                        IF j - 1 >= start /\ j - 1 < start + size
                            THEN key.bytes[j - start]
                        ELSE IF j - 1 = start + size THEN 0
                        ELSE page.buffer[j]],
                    remaining |-> page.remaining - (size + 1)],
         start |-> start]

push_back_no_terminator_count(page, key) ==
    LET size  == key.size
        start == page_size - page.remaining
    IN  [page  |-> [buffer |-> [j \in 1..page_size |->
                        IF j - 1 >= start /\ j - 1 < start + size
                            THEN key.bytes[j - start]
                        ELSE IF j - 1 = start + size THEN 0
                        ELSE page.buffer[j]],
                    remaining |-> page.remaining - size],
         start |-> start]

push_back_no_terminator(page, key) ==
    LET size  == key.size
        start == page_size - page.remaining
    IN  [page  |-> [buffer |-> [j \in 1..page_size |->
                        IF j - 1 >= start /\ j - 1 < start + size
                            THEN key.bytes[j - start]
                        ELSE page.buffer[j]],
                    remaining |-> page.remaining - (size + 1)],
         start |-> start]

\* fixed_page::push_back writes size + 1 bytes from start: some of them
\* fall outside buffer_.
overruns(page, key) == (page_size - page.remaining) + key.size + 1 > page_size

push_back(page, key) ==
    LET size  == key.size
        start == page_size - page.remaining
    IN  [page  |-> [buffer |-> [j \in 1..page_size |->
                        IF j - 1 >= start /\ j - 1 < start + size
                            THEN key.bytes[j - start]
                        ELSE IF j - 1 = start + size THEN 0
                        ELSE page.buffer[j]],
                    remaining |-> size_t(page.remaining - (size + 1))],
         start |-> start]

\* unordered_set::insert of one element: nothing happens when an equal
\* element is already present.
insert(map, pages, key) ==
    IF find(map, pages, key) # {} THEN map
    ELSE map \cup {entry(key.data, key.size, key.hash)}

RECURSIVE range_insert_last_wins(_, _, _)
range_insert_last_wins(map, list, k) ==
    IF k > Len(list) THEN map
    ELSE range_insert_last_wins(
            (map \ find(map, <<>>, list[k]))
                \cup {entry(list[k].data, list[k].size, list[k].hash)},
            list, k + 1)

RECURSIVE range_insert(_, _, _)
\* unordered_set(first, last): the elements are inserted one by one, in order.
range_insert(map, list, k) ==
    IF k > Len(list) THEN map
    ELSE range_insert(insert(map, <<>>, list[k]), list, k + 1)

\* string_pool::string_pool(std::initializer_list<string_literal>)
string_pool(list) == [map_ |-> range_insert({}, list, 1), page_ |-> <<>>]

get_string_literal_copies(map, pages, string) ==
    LET key  == string
        size == key.size
        it   == find(map, pages, key)
        grown == IF pages = <<>> \/ ~can_hold(pages[Len(pages)], size)
                    THEN Append(pages, fixed_page) ELSE pages
        pb   == push_back(grown[Len(grown)], key)
        str  == Addr(Len(grown), pb.start)
    IN  IF it # {}
            THEN [map_ |-> map, page_ |-> pages,
                  ret |-> fixed_string((CHOOSE e \in it : TRUE).data, size)]
        ELSE [map_ |-> map \cup {entry(str, size, key.hash)},
              page_ |-> [grown EXCEPT ![Len(grown)] = pb.page],
              ret |-> fixed_string(str, size)]

\* fixed_string string_pool::get_string(string_literal string)
get_string_literal(map, pages, string) ==
    LET key  == string
        size == key.size
        it   == find(map, pages, key)
    IN  IF it # {}
            THEN [map_ |-> map, page_ |-> pages,
                  ret |-> fixed_string((CHOOSE e \in it : TRUE).data, size)]
        ELSE [map_ |-> map \cup {entry(key.data, key.size, key.hash)},
              page_ |-> pages,
              ret |-> fixed_string(key.data, size)]

\* fixed_string string_pool::get_string(string_key key)
get_string(map, pages, key) ==
    LET size == key.size
        it   == find(map, pages, key)
        grown == IF pages = <<>> \/ ~can_hold(pages[Len(pages)], size)
                    THEN Append(pages, fixed_page) ELSE pages
        pb   == push_back(grown[Len(grown)], key)
        str  == Addr(Len(grown), pb.start)
    IN  IF it # {}
            THEN [map_ |-> map, page_ |-> pages,
                  ret |-> fixed_string((CHOOSE e \in it : TRUE).data, size)]
        ELSE [map_ |-> map \cup {entry(str, size, key.hash)},
              page_ |-> [grown EXCEPT ![Len(grown)] = pb.page],
              ret |-> fixed_string(str, size)]

(* ------------------------------ utf8.cpp ------------------------------- *)

\* byte_range::size() and byte_range::operator[]
size(r) == Len(r)
at(r, index) == r[index + 1]

\* (b ^ 0x80u) & 0xC0u is non-zero: b is not 10xxxxxx
non_continuation_top_bit(b) == BitAnd(b, 128) = 0

non_continuation(b) == BitAnd(BitXor(b, 128), 192) # 0

\* The codepoint assembled from a 2, 3 and 4 byte sequence.
codepoint2(b1, b2) == BitOr(BitAnd(b1, 31) * 64, BitAnd(b2, 63))
codepoint3(b1, b2, b3) ==
    BitOr(BitOr(BitAnd(b1, 15) * 4096, BitAnd(b2, 63) * 64), BitAnd(b3, 63))
codepoint4(b1, b2, b3, b4) ==
    BitOr(BitOr(BitOr(BitAnd(b1, 7) * 262144, BitAnd(b2, 63) * 4096),
                BitAnd(b3, 63) * 64),
          BitAnd(b4, 63))

\* The tests validate makes on an assembled codepoint.
overlong_2(codepoint) == codepoint < 127

overlong_3_off_by_one(codepoint) == codepoint <= 2048

overlong_3(codepoint) == codepoint <= 2047

overlong_4(codepoint) == codepoint <= 65535

invalid_codepoint_off_by_one(codepoint) == codepoint > 1114112

invalid_codepoint(codepoint) == codepoint > 1114111

Return_past_error(error, n, cc) ==
    [ret |-> TRUE, error |-> error,
     i |-> IF error = "success" THEN n ELSE n + 1, codepoint_count |-> cc]

\* return { error, range.to_utf8(i), codepoint_count }
Return(error, n, cc) ==
    [ret |-> TRUE, error |-> error, i |-> n, codepoint_count |-> cc]

Continue_rewinds(n, cc) ==
    [ret |-> FALSE, error |-> "none", i |-> n - 1, codepoint_count |-> cc]

\* The loop goes on with the cursor at n.
Continue(n, cc) ==
    [ret |-> FALSE, error |-> "none", i |-> n, codepoint_count |-> cc]

validate_step_f8_is_lead(r, n, cc) ==
    IF ~(n < size(r)) THEN Return("success", n, cc)
    ELSE LET b1 == at(r, n) IN
    IF b1 < 128 THEN Continue(n + 1, cc + 1)
    ELSE IF b1 < 192 THEN Return("unexpected_continuation_byte", n, cc)
    ELSE IF b1 < 224 THEN
        IF n + 1 >= size(r) THEN Return("unexpected_end", n, cc)
        ELSE LET b2 == at(r, n + 1) IN
        IF non_continuation(b2)
            THEN Return("unexpected_non_continuation_byte", n, cc)
        ELSE IF overlong_2(codepoint2(b1, b2))
            THEN Return("overlong_enocoding", n, cc)
        ELSE Continue(n + 2, cc + 1)
    ELSE IF b1 < 240 THEN
        IF n + 2 >= size(r) THEN Return("unexpected_end", n, cc)
        ELSE LET b2 == at(r, n + 1)
                 b3 == at(r, n + 2) IN
        IF non_continuation(b2) \/ non_continuation(b3)
            THEN Return("unexpected_non_continuation_byte", n, cc)
        ELSE IF overlong_3(codepoint3(b1, b2, b3))
            THEN Return("overlong_enocoding", n, cc)
        ELSE Continue(n + 3, cc + 1)
    ELSE IF b1 < 249 THEN
        IF n + 3 >= size(r) THEN Return("unexpected_end", n, cc)
        ELSE LET b2 == at(r, n + 1)
                 b3 == at(r, n + 2)
                 b4 == at(r, n + 3) IN
        IF non_continuation(b2) \/ non_continuation(b3) \/ non_continuation(b4)
            THEN Return("unexpected_non_continuation_byte", n, cc)
        ELSE IF invalid_codepoint(codepoint4(b1, b2, b3, b4))
            THEN Return("invalid_codepoint", n, cc)
        ELSE IF overlong_4(codepoint4(b1, b2, b3, b4))
            THEN Return("overlong_enocoding", n, cc)
        ELSE Continue(n + 4, cc + 1)
    ELSE Return("invalid_byte", n, cc)

validate_step_checks_b2_first(r, n, cc) ==
    IF ~(n < size(r)) THEN Return("success", n, cc)
    ELSE LET b1 == at(r, n) IN
    IF b1 < 128 THEN Continue(n + 1, cc + 1)
    ELSE IF b1 < 192 THEN Return("unexpected_continuation_byte", n, cc)
    ELSE IF b1 < 224 THEN
        IF n + 1 >= size(r) THEN Return("unexpected_end", n, cc)
        ELSE LET b2 == at(r, n + 1) IN
        IF non_continuation(b2)
            THEN Return("unexpected_non_continuation_byte", n, cc)
        ELSE IF overlong_2(codepoint2(b1, b2))
            THEN Return("overlong_enocoding", n, cc)
        ELSE Continue(n + 2, cc + 1)
    ELSE IF b1 < 240 THEN
        IF n + 1 < size(r) /\ non_continuation(at(r, n + 1))
            THEN Return("unexpected_non_continuation_byte", n, cc)
        ELSE IF n + 2 >= size(r) THEN Return("unexpected_end", n, cc)
        ELSE LET b2 == at(r, n + 1)
                 b3 == at(r, n + 2) IN
        IF non_continuation(b2) \/ non_continuation(b3)
            THEN Return("unexpected_non_continuation_byte", n, cc)
        ELSE IF overlong_3(codepoint3(b1, b2, b3))
            THEN Return("overlong_enocoding", n, cc)
        ELSE Continue(n + 3, cc + 1)
    ELSE IF b1 < 248 THEN
        IF n + 3 >= size(r) THEN Return("unexpected_end", n, cc)
        ELSE LET b2 == at(r, n + 1)
                 b3 == at(r, n + 2)
                 b4 == at(r, n + 3) IN
        IF non_continuation(b2) \/ non_continuation(b3) \/ non_continuation(b4)
            THEN Return("unexpected_non_continuation_byte", n, cc)
        ELSE IF invalid_codepoint(codepoint4(b1, b2, b3, b4))
            THEN Return("invalid_codepoint", n, cc)
        ELSE IF overlong_4(codepoint4(b1, b2, b3, b4))
            THEN Return("overlong_enocoding", n, cc)
        ELSE Continue(n + 4, cc + 1)
    ELSE Return("invalid_byte", n, cc)

\* validate: the loop test and one pass through the loop body, from cursor
\* n and counter cc.
validate_step(r, n, cc) ==
    IF ~(n < size(r)) THEN Return("success", n, cc)
    ELSE LET b1 == at(r, n) IN
    IF b1 < 128 THEN Continue(n + 1, cc + 1)
    ELSE IF b1 < 192 THEN Return("unexpected_continuation_byte", n, cc)
    ELSE IF b1 < 224 THEN
        IF n + 1 >= size(r) THEN Return("unexpected_end", n, cc)
        ELSE LET b2 == at(r, n + 1) IN
        IF non_continuation(b2)
            THEN Return("unexpected_non_continuation_byte", n, cc)
        ELSE IF overlong_2(codepoint2(b1, b2))
            THEN Return("overlong_enocoding", n, cc)
        ELSE Continue(n + 2, cc + 1)
    ELSE IF b1 < 240 THEN
        IF n + 2 >= size(r) THEN Return("unexpected_end", n, cc)
        ELSE LET b2 == at(r, n + 1)
                 b3 == at(r, n + 2) IN
        IF non_continuation(b2) \/ non_continuation(b3)
            THEN Return("unexpected_non_continuation_byte", n, cc)
        ELSE IF overlong_3(codepoint3(b1, b2, b3))
            THEN Return("overlong_enocoding", n, cc)
        ELSE Continue(n + 3, cc + 1)
    ELSE IF b1 < 248 THEN
        IF n + 3 >= size(r) THEN Return("unexpected_end", n, cc)
        ELSE LET b2 == at(r, n + 1)
                 b3 == at(r, n + 2)
                 b4 == at(r, n + 3) IN
        IF non_continuation(b2) \/ non_continuation(b3) \/ non_continuation(b4)
            THEN Return("unexpected_non_continuation_byte", n, cc)
        ELSE IF invalid_codepoint(codepoint4(b1, b2, b3, b4))
            THEN Return("invalid_codepoint", n, cc)
        ELSE IF overlong_4(codepoint4(b1, b2, b3, b4))
            THEN Return("overlong_enocoding", n, cc)
        ELSE Continue(n + 4, cc + 1)
    ELSE Return("invalid_byte", n, cc)

validate_quick_step_short_advance(r, n, cc) ==
    IF ~(n < size(r)) THEN Return("success", n, cc)
    ELSE LET b1 == at(r, n) IN
    IF b1 < 128 THEN Continue(n + 1, cc + 1)
    ELSE IF b1 < 192 THEN Return("unexpected_continuation_byte", n, cc)
    ELSE IF b1 < 224 THEN
        IF n + 1 >= size(r) THEN Return("unexpected_end", n, cc)
        ELSE LET b2 == at(r, n + 1) IN
        IF non_continuation(b2)
            THEN Return("unexpected_non_continuation_byte", n, cc)
        ELSE Continue(n + 2, cc + 1)
    ELSE IF b1 < 240 THEN
        IF n + 2 >= size(r) THEN Return("unexpected_end", n, cc)
        ELSE LET b2 == at(r, n + 1)
                 b3 == at(r, n + 2) IN
        IF non_continuation(b2) \/ non_continuation(b3)
            THEN Return("unexpected_non_continuation_byte", n, cc)
        ELSE Continue(n + 2, cc + 1)
    ELSE IF b1 < 248 THEN
        IF n + 3 >= size(r) THEN Return("unexpected_end", n, cc)
        ELSE LET b2 == at(r, n + 1)
                 b3 == at(r, n + 2)
                 b4 == at(r, n + 3) IN
        IF non_continuation(b2) \/ non_continuation(b3) \/ non_continuation(b4)
            THEN Return("unexpected_non_continuation_byte", n, cc)
        ELSE Continue(n + 4, cc + 1)
    ELSE Return("invalid_byte", n, cc)

\* validate_quick: the loop test and one pass through the loop body.
validate_quick_step(r, n, cc) ==
    IF ~(n < size(r)) THEN Return("success", n, cc)
    ELSE LET b1 == at(r, n) IN
    IF b1 < 128 THEN Continue(n + 1, cc + 1)
    ELSE IF b1 < 192 THEN Return("unexpected_continuation_byte", n, cc)
    ELSE IF b1 < 224 THEN
        IF n + 1 >= size(r) THEN Return("unexpected_end", n, cc)
        ELSE LET b2 == at(r, n + 1) IN
        IF non_continuation(b2)
            THEN Return("unexpected_non_continuation_byte", n, cc)
        ELSE Continue(n + 2, cc + 1)
    ELSE IF b1 < 240 THEN
        IF n + 2 >= size(r) THEN Return("unexpected_end", n, cc)
        ELSE LET b2 == at(r, n + 1)
                 b3 == at(r, n + 2) IN
        IF non_continuation(b2) \/ non_continuation(b3)
            THEN Return("unexpected_non_continuation_byte", n, cc)
        ELSE Continue(n + 3, cc + 1)
    ELSE IF b1 < 248 THEN
        IF n + 3 >= size(r) THEN Return("unexpected_end", n, cc)
        ELSE LET b2 == at(r, n + 1)
                 b3 == at(r, n + 2)
                 b4 == at(r, n + 3) IN
        IF non_continuation(b2) \/ non_continuation(b3) \/ non_continuation(b4)
            THEN Return("unexpected_non_continuation_byte", n, cc)
        ELSE Continue(n + 4, cc + 1)
    ELSE Return("invalid_byte", n, cc)

\* validation_result{ error, range.to_utf8(i), codepoint_count }: the
\* utf8_range starts where the byte_range starts and is i bytes long.
validation_result(st) ==
    [error |-> st.error, range |-> st.i, codepoint_count |-> st.codepoint_count]

\* The indices range[...] is called with in one pass of the loop of validate
\* or of validate_quick, the cursor at n: b1, and after the end test of the
\* branch every following byte of the sequence.
reads(r, n) ==
    IF ~(n < size(r)) THEN {}
    ELSE LET b1 == at(r, n) IN
    IF b1 < 192 THEN {n}
    ELSE IF b1 < 224 THEN
        IF n + 1 >= size(r) THEN {n} ELSE {n, n + 1}
    ELSE IF b1 < 240 THEN
        IF n + 2 >= size(r) THEN {n} ELSE {n, n + 1, n + 2}
    ELSE IF b1 < 248 THEN
        IF n + 3 >= size(r) THEN {n} ELSE {n, n + 1, n + 2, n + 3}
    ELSE {n}

RECURSIVE validate_from(_, _, _)
\* validate: the while loop from cursor n and counter cc to the return.
validate_from(r, n, cc) ==
    LET st == validate_step(r, n, cc)
    IN  IF st.ret THEN validation_result(st)
        ELSE validate_from(r, st.i, st.codepoint_count)

\* validation_result validate(byte_range range)
validate(r) == validate_from(r, 0, 0)

RECURSIVE validate_quick_from(_, _, _)
\* validate_quick: the while loop from cursor n and counter cc to the return.
validate_quick_from(r, n, cc) ==
    LET st == validate_quick_step(r, n, cc)
    IN  IF st.ret THEN validation_result(st)
        ELSE validate_quick_from(r, st.i, st.codepoint_count)

\* validation_result validate_quick(byte_range range)
validate_quick(r) == validate_quick_from(r, 0, 0)

(* ------------------------------ utf8.hpp ------------------------------- *)

\* iterator::byte(offset), the iterator standing at offset str of r
byte(r, str, offset) == at(r, str + offset)

operator_deref_short_shift(r, str) ==
    LET byte0 == byte(r, str, 0) IN
    IF byte0 < 128 THEN byte0
    ELSE IF byte0 < 224 THEN
        BitOr(BitAnd(byte0, 31) * 32, BitAnd(byte(r, str, 1), 63))
    ELSE IF byte0 < 240 THEN
        BitOr(BitOr(BitAnd(byte0, 15) * 4096, BitAnd(byte(r, str, 1), 63) * 64),
              BitAnd(byte(r, str, 2), 63))
    ELSE
        BitOr(BitOr(BitOr(BitAnd(byte0, 7) * 262144,
                          BitAnd(byte(r, str, 1), 63) * 4096),
                    BitAnd(byte(r, str, 2), 63) * 64),
              BitAnd(byte(r, str, 3), 63))

\* codepoint_t iterator::operator*() const
operator_deref(r, str) ==
    LET byte0 == byte(r, str, 0) IN
    IF byte0 < 128 THEN byte0
    ELSE IF byte0 < 224 THEN
        BitOr(BitAnd(byte0, 31) * 64, BitAnd(byte(r, str, 1), 63))
    ELSE IF byte0 < 240 THEN
        BitOr(BitOr(BitAnd(byte0, 15) * 4096, BitAnd(byte(r, str, 1), 63) * 64),
              BitAnd(byte(r, str, 2), 63))
    ELSE
        BitOr(BitOr(BitOr(BitAnd(byte0, 7) * 262144,
                          BitAnd(byte(r, str, 1), 63) * 4096),
                    BitAnd(byte(r, str, 2), 63) * 64),
              BitAnd(byte(r, str, 3), 63))

operator_increment_short_advance(r, str) ==
    LET byte0 == byte(r, str, 0) IN
    IF byte0 <= 127 THEN [str_ |-> str + 1, assert |-> FALSE]
    ELSE IF byte0 <= 191 THEN [str_ |-> str + 1, assert |-> TRUE]
    ELSE IF byte0 <= 223 THEN [str_ |-> str + 2, assert |-> FALSE]
    ELSE IF byte0 <= 239 THEN [str_ |-> str + 3, assert |-> FALSE]
    ELSE IF byte0 <= 247 THEN [str_ |-> str + 3, assert |-> FALSE]
    ELSE [str_ |-> str + 1, assert |-> TRUE]

\* iterator& iterator::operator++(): the new str_, and whether the branch
\* taken holds assert(false).
operator_increment(r, str) ==
    LET byte0 == byte(r, str, 0) IN
    IF byte0 <= 127 THEN [str_ |-> str + 1, assert |-> FALSE]
    ELSE IF byte0 <= 191 THEN [str_ |-> str + 1, assert |-> TRUE]
    ELSE IF byte0 <= 223 THEN [str_ |-> str + 2, assert |-> FALSE]
    ELSE IF byte0 <= 239 THEN [str_ |-> str + 3, assert |-> FALSE]
    ELSE IF byte0 <= 247 THEN [str_ |-> str + 4, assert |-> FALSE]
    ELSE [str_ |-> str + 1, assert |-> TRUE]

(* --------------------------- validator inputs -------------------------- *)

\* Bytes the raw inputs are made of: the ASCII byte 0x41; the continuation
\* bytes 0x80, 0x90, 0xBF; the 2-byte leads 0xC1, 0xC2; the 3-byte lead
\* 0xE0; the 4-byte leads 0xF4, 0xF7; and 0xF8.
TestBytes == {65, 128, 144, 191, 193, 194, 224, 244, 247, 248}

\* The inputs of the documented scenarios: 41 80, C0 80, E2 82,
\* F4 90 80 80, FF and the empty input.
ScenarioInputs ==
    {<<65, 128>>, <<192, 128>>, <<226, 130>>, <<244, 144, 128, 128>>, <<255>>, <<>>,
     <<127, 223, 191>>, <<239, 191, 191, 240, 144, 128, 128>>}

RawInputs == SeqsUpTo(TestBytes, MaxInput) \cup ScenarioInputs

\* Scalar values at the ends of the four length classes and of the
\* surrogate gap.
TestScalars == {0, 65, 127, 128, 2047, 2048, 55295, 57344, 65535, 65536, 1114111}

\* The standard UTF-8 encoding of one scalar value.
Encode(cp) ==
    IF cp < 128 THEN <<cp>>
    ELSE IF cp < 2048 THEN <<192 + (cp \div 64), 128 + (cp % 64)>>
    ELSE IF cp < 65536 THEN
        <<224 + (cp \div 4096), 128 + ((cp \div 64) % 64), 128 + (cp % 64)>>
    ELSE <<240 + (cp \div 262144), 128 + ((cp \div 4096) % 64),
           128 + ((cp \div 64) % 64), 128 + (cp % 64)>>

RECURSIVE EncodeAll(_)
EncodeAll(cps) ==
    IF cps = <<>> THEN <<>> ELSE Encode(Head(cps)) \o EncodeAll(Tail(cps))

(* ------------------------------- state --------------------------------- *)

VARIABLES
    constructed,      \* a string_pool object exists
    map_,             \* string_pool::map_, a set of entries
    page_,            \* string_pool::page_ and the chain behind it, oldest first
    ncalls,           \* strings handed to the pool so far
    call,             \* the last operation on the pool, its argument and result
    handles,          \* every fixed_string get_string has returned, per call
    overrun,          \* push_back has written outside a buffer_
    thread,           \* per thread: where its get_string call stands, its
                      \* key and the address push_back returned to it
    overlapped,       \* two get_string calls were in progress at once
    range,            \* byte_range handed to validate / validate_quick
    scalars,          \* the scalar values range encodes, when encoded
    encoded,          \* range was produced by encoding scalars
    pc,               \* which validator is running
    i,                \* the running validator's cursor
    codepoint_count,  \* the running validator's counter
    full,             \* validation_result of validate
    quick,            \* validation_result of validate_quick
    it_of,            \* the result whose utf8_range is iterated
    str_,             \* iterator::str_, as an offset into range
    advances,         \* operator++ calls made on the iterator
    value,            \* what operator* returned at str_, if it was called
    asserted          \* an assert(false) branch of operator++ was taken

pool_vars == <<constructed, map_, page_, ncalls, call, handles,
               overrun, thread, overlapped>>
iter_vars == <<it_of, str_, advances, value, asserted>>
utf8_vars == <<range, scalars, encoded, pc, i, codepoint_count, full, quick,
               it_of, str_, advances, value, asserted>>
vars == <<constructed, map_, page_, ncalls, call, handles,
          overrun, thread, overlapped,
          range, scalars, encoded, pc, i, codepoint_count, full, quick,
          it_of, str_, advances, value, asserted>>

\* A validation_result that has not been produced yet.
NoResult == [error |-> "none", range |-> 0, codepoint_count |-> 0]

\* No codepoint: operator* was not called at str_.
NoValue == Uninit

\* No iterator exists.
IterIdle ==
    /\ it_of = "none"
    /\ str_ = 0
    /\ advances = 0
    /\ value = NoValue
    /\ asserted = FALSE

Call(op, lit, key, list, ret) ==
    [op |-> op, lit |-> lit, bytes |-> key, list |-> list, ret |-> ret]

\* The threads that call get_string on one pool.
Threads == {"t1", "t2"}

\* A thread that is not inside get_string.
Outside == [pc |-> "outside", bytes |-> <<>>, str |-> Transient]

PoolInit ==
    /\ constructed = FALSE
    /\ map_ = {}
    /\ page_ = <<>>
    /\ ncalls = 0
    /\ call = Call("none", 0, <<>>, <<>>, NoHandle)
    /\ handles = {}
    /\ overrun = FALSE
    /\ thread = [t \in Threads |-> Outside]
    /\ overlapped = FALSE

Utf8Idle ==
    /\ range = <<>>
    /\ scalars = <<>>
    /\ encoded = FALSE
    /\ pc = "idle"
    /\ i = 0
    /\ codepoint_count = 0
    /\ full = NoResult
    /\ quick = NoResult
    /\ IterIdle

(* ------------------------ operations on a pool ------------------------- *)

\* string_pool() = default
DefaultConstruct ==
    /\ ~constructed
    /\ constructed' = TRUE
    /\ call' = Call("string_pool()", 0, <<>>, <<>>, NoHandle)
    /\ UNCHANGED <<map_, page_, ncalls, handles, overrun, thread, overlapped>>
    /\ UNCHANGED utf8_vars

\* string_pool(std::initializer_list<string_literal> list)
ListConstruct ==
    /\ ~constructed
    /\ \E ids \in SeqsUpTo(DOMAIN Literals, MaxCalls) :
        LET list == [k \in 1..Len(ids) |-> Literals[ids[k]]]
            pool == string_pool(list)
        IN  /\ constructed' = TRUE
            /\ map_' = pool.map_
            /\ page_' = pool.page_
            /\ ncalls' = Len(ids)
            /\ call' = Call("string_pool(list)", 0, <<>>, ids, NoHandle)
    /\ UNCHANGED <<handles, overrun, thread, overlapped>>
    /\ UNCHANGED utf8_vars

\* get_string(string_literal)
GetStringLiteral ==
    /\ constructed
    /\ ~overrun
    /\ ncalls < MaxCalls
    /\ \E id \in DOMAIN Literals :
        LET r == get_string_literal(map_, page_, Literals[id])
        IN  /\ map_' = r.map_
            /\ page_' = r.page_
            /\ ncalls' = ncalls + 1
            /\ call' = Call("string_literal", id, Literals[id].bytes, <<>>, r.ret)
            /\ handles' = handles \cup
                    {[call |-> ncalls + 1, op |-> "string_literal",
                      content |-> Literals[id].bytes,
                      data |-> r.ret.data, size |-> r.ret.size]}
    /\ UNCHANGED <<constructed, overrun, thread, overlapped>>
    /\ UNCHANGED utf8_vars

\* get_string(string_key), and get_string(std::string_view) and
\* get_string(const std::string&), which are this call with string_key{string}.
GetStringKey ==
    /\ constructed
    /\ ~overrun
    /\ ncalls < MaxCalls
    /\ \E bytes \in Contents :
        LET r == get_string(map_, page_, string_key(bytes))
        IN  /\ can_hold(fixed_page, Len(bytes))
            /\ map_' = r.map_
            /\ page_' = r.page_
            /\ ncalls' = ncalls + 1
            /\ call' = Call("string_key", 0, bytes, <<>>, r.ret)
            /\ handles' = handles \cup
                    {[call |-> ncalls + 1, op |-> "string_key", content |-> bytes,
                      data |-> r.ret.data, size |-> r.ret.size]}
    /\ UNCHANGED <<constructed, overrun, thread, overlapped>>
    /\ UNCHANGED utf8_vars

Init == PoolInit /\ Utf8Idle

Next ==
    \/ DefaultConstruct
    \/ ListConstruct
    \/ GetStringLiteral
    \/ GetStringKey

Spec == Init /\ [][Next]_vars

(* ------------------------- strings of any length ---------------------- *)

\* The values remaining_ can hold after a push_back that overran buffer_:
\* the bytes behind buffer_ are those of remaining_, which the copy may
\* have overwritten before size + 1 is subtracted.
remaining_after_overrun(page, key) ==
    {size_t(v - (key.size + 1)) : v \in {page.remaining, 0} \cup Chars}

\* get_string(string_key) with a string a fresh page cannot hold.  After a
\* write outside buffer_ the behaviour of the program is undefined: the
\* pool is left in one of the states the write can produce and no further
\* call is followed.
GetStringKeyTooLong ==
    /\ constructed
    /\ ~overrun
    /\ ncalls < MaxCalls
    /\ \E bytes \in TooLong :
        LET key  == string_key(bytes)
            r    == get_string(map_, page_, key)
            hit  == find(map_, page_, key) # {}
            page == IF page_ = <<>> \/ ~can_hold(page_[Len(page_)], key.size)
                        THEN fixed_page ELSE page_[Len(page_)]
        IN  /\ ~can_hold(fixed_page, Len(bytes))
            /\ ncalls' = ncalls + 1
            /\ IF hit \/ ~overruns(page, key)
                   THEN /\ map_' = r.map_
                        /\ page_' = r.page_
                        /\ call' = Call("string_key", 0, bytes, <<>>, r.ret)
                        /\ handles' = handles \cup
                              {[call |-> ncalls + 1, op |-> "string_key",
                                content |-> bytes,
                                data |-> r.ret.data, size |-> r.ret.size]}
                        /\ UNCHANGED overrun
               ELSE /\ overrun' = TRUE
                    /\ \E v \in remaining_after_overrun(page, key) :
                          page_' = [r.page_ EXCEPT ![Len(r.page_)].remaining = v]
                    /\ map_' \in {map_, r.map_}
                    /\ call' = Call("string_key", 0, bytes, <<>>, NoHandle)
                    /\ UNCHANGED handles
    /\ UNCHANGED <<constructed, thread, overlapped>>
    /\ UNCHANGED utf8_vars

NextAnyLength ==
    \/ DefaultConstruct
    \/ ListConstruct
    \/ GetStringLiteral
    \/ GetStringKey
    \/ GetStringKeyTooLong

SpecAnyLength == Init /\ [][NextAnyLength]_vars

(* --------------------------- concurrent calls -------------------------- *)

\* Contents the threads hand to get_string: runs of one character that a
\* fresh page holds.
ThreadContents ==
    {[k \in 1..n |-> c] : n \in 1..(page_size - 2), c \in Chars}

\* Thread t is inside get_string.
Inside(t) == thread[t].pc # "outside"

\* Thread t calls get_string(string_key) with a string a fresh page holds.
Enter(t) ==
    /\ constructed
    /\ ~overrun
    /\ ~Inside(t)
    /\ ncalls < MaxCalls
    /\ \E bytes \in ThreadContents :
        /\ can_hold(fixed_page, Len(bytes))
        /\ thread' = [thread EXCEPT ![t] =
                        [pc |-> "probe", bytes |-> bytes, str |-> Transient]]
    /\ ncalls' = ncalls + 1
    /\ overlapped' = (overlapped \/ \E u \in Threads \ {t} : Inside(u))
    /\ UNCHANGED <<constructed, map_, page_, call, handles, overrun>>
    /\ UNCHANGED utf8_vars

\* it = map_.find(key); on a hit the call returns.
Probe(t) ==
    /\ ~overrun
    /\ thread[t].pc = "probe"
    /\ LET key == string_key(thread[t].bytes)
           it  == find(map_, page_, key)
       IN  IF it # {}
               THEN LET ret == fixed_string((CHOOSE e \in it : TRUE).data, key.size)
                    IN  /\ thread' = [thread EXCEPT ![t] = Outside]
                        /\ call' = Call("string_key", 0, key.bytes, <<>>, ret)
                        /\ handles' = handles \cup
                              {[call |-> ncalls, op |-> "string_key",
                                content |-> key.bytes,
                                data |-> ret.data, size |-> ret.size]}
           ELSE /\ thread' = [thread EXCEPT ![t].pc = "page"]
                /\ UNCHANGED <<call, handles>>
    /\ UNCHANGED <<constructed, map_, page_, ncalls, overrun, overlapped>>
    /\ UNCHANGED utf8_vars

\* if (page_ == nullptr || !page_->can_hold(size)) page_ = make_unique(...)
PageAllocation(t) ==
    /\ ~overrun
    /\ thread[t].pc = "page"
    /\ page_' = IF page_ = <<>> \/ ~can_hold(page_[Len(page_)], Len(thread[t].bytes))
                    THEN Append(page_, fixed_page) ELSE page_
    /\ thread' = [thread EXCEPT ![t].pc = "copy"]
    /\ UNCHANGED <<constructed, map_, ncalls, call, handles, overrun, overlapped>>
    /\ UNCHANGED utf8_vars

\* str = page_->push_back(key), on the page that is current now
Copy(t) ==
    /\ ~overrun
    /\ thread[t].pc = "copy"
    /\ LET key  == string_key(thread[t].bytes)
           page == page_[Len(page_)]
           pb   == push_back(page, key)
       IN  /\ thread' = [thread EXCEPT ![t].pc = "insert",
                                       ![t].str = Addr(Len(page_), pb.start)]
           /\ IF overruns(page, key)
                  THEN /\ overrun' = TRUE
                       /\ \E v \in remaining_after_overrun(page, key) :
                             page_' = [page_ EXCEPT ![Len(page_)] =
                                         [pb.page EXCEPT !.remaining = v]]
              ELSE /\ page_' = [page_ EXCEPT ![Len(page_)] = pb.page]
                   /\ UNCHANGED overrun
    /\ UNCHANGED <<constructed, map_, ncalls, call, handles, overlapped>>
    /\ UNCHANGED utf8_vars

\* map_.insert(string_key{ {str, size}, key.hash_ }); return { str, size }
Insert(t) ==
    /\ ~overrun
    /\ thread[t].pc = "insert"
    /\ LET key  == string_key(thread[t].bytes)
           str  == thread[t].str
       IN  /\ map_' = insert(map_, page_,
                             [data |-> str, size |-> key.size,
                              bytes |-> key.bytes, hash |-> key.hash])
           /\ call' = Call("string_key", 0, key.bytes, <<>>,
                           fixed_string(str, key.size))
           /\ handles' = handles \cup
                 {[call |-> ncalls, op |-> "string_key", content |-> key.bytes,
                   data |-> str, size |-> key.size]}
    /\ thread' = [thread EXCEPT ![t] = Outside]
    /\ UNCHANGED <<constructed, page_, ncalls, overrun, overlapped>>
    /\ UNCHANGED utf8_vars

NextConcurrent ==
    \/ DefaultConstruct
    \/ \E t \in Threads : Enter(t)
    \/ \E t \in Threads : Probe(t)
    \/ \E t \in Threads : PageAllocation(t)
    \/ \E t \in Threads : Copy(t)
    \/ \E t \in Threads : Insert(t)

SpecConcurrent == Init /\ [][NextConcurrent]_vars

(* ----------------------------- validators ----------------------------- *)

\* The validators are handed raw bytes, or the encoding of scalar values.
Utf8Init ==
    /\ \/ /\ range \in RawInputs
          /\ scalars = <<>>
          /\ encoded = FALSE
       \/ /\ scalars \in SeqsUpTo(TestScalars, MaxScalars)
          /\ range = EncodeAll(scalars)
          /\ encoded = TRUE
    /\ pc = "validate"
    /\ i = 0
    /\ codepoint_count = 0
    /\ full = NoResult
    /\ quick = NoResult
    /\ IterIdle

\* validate(range): one pass of the loop, or the return.
ValidateIteration ==
    /\ pc = "validate"
    /\ LET st == validate_step(range, i, codepoint_count)
       IN  IF st.ret
               THEN /\ full' = validation_result(st)
                    /\ pc' = "validate_quick"
                    /\ i' = 0
                    /\ codepoint_count' = 0
           ELSE /\ i' = st.i
                /\ codepoint_count' = st.codepoint_count
                /\ UNCHANGED <<full, pc>>
    /\ UNCHANGED <<range, scalars, encoded, quick>>
    /\ UNCHANGED iter_vars
    /\ UNCHANGED pool_vars

\* validate_quick(range): one pass of the loop, or the return.
ValidateQuickIteration ==
    /\ pc = "validate_quick"
    /\ LET st == validate_quick_step(range, i, codepoint_count)
       IN  IF st.ret
               THEN /\ quick' = validation_result(st)
                    /\ pc' = "done"
                    /\ UNCHANGED <<i, codepoint_count>>
           ELSE /\ i' = st.i
                /\ codepoint_count' = st.codepoint_count
                /\ UNCHANGED <<quick, pc>>
    /\ UNCHANGED <<range, scalars, encoded, full>>
    /\ UNCHANGED iter_vars
    /\ UNCHANGED pool_vars

InitUtf8 == PoolInit /\ Utf8Init

NextUtf8 ==
    \/ ValidateIteration
    \/ ValidateQuickIteration

SpecUtf8 == InitUtf8 /\ [][NextUtf8]_vars

(* ------------------------------ iteration ------------------------------ *)

\* The validation_result whose range is iterated.
Iterated == IF it_of = "validate" THEN full ELSE quick

\* Both validators have returned for range.
IterInit ==
    /\ \/ /\ range \in RawInputs
          /\ scalars = <<>>
          /\ encoded = FALSE
       \/ /\ scalars \in SeqsUpTo(TestScalars, MaxScalars)
          /\ range = EncodeAll(scalars)
          /\ encoded = TRUE
    /\ pc = "done"
    /\ full = validate(range)
    /\ quick = validate_quick(range)
    /\ i = quick.range
    /\ codepoint_count = quick.codepoint_count
    /\ IterIdle

\* it = result.range.begin()
IterBegin ==
    /\ pc = "done"
    /\ \E v \in {"validate", "validate_quick"} : it_of' = v
    /\ pc' = "iterate"
    /\ str_' = 0
    /\ advances' = 0
    /\ value' = NoValue
    /\ UNCHANGED asserted
    /\ UNCHANGED <<range, scalars, encoded, i, codepoint_count, full, quick>>
    /\ UNCHANGED pool_vars

\* it != result.range.end() holds, and *it is evaluated
IterDereference ==
    /\ pc = "iterate"
    /\ value = NoValue
    /\ str_ # Iterated.range
    /\ str_ < Len(range)
    /\ value' = operator_deref(range, str_)
    /\ UNCHANGED <<it_of, str_, advances, asserted>>
    /\ UNCHANGED <<range, scalars, encoded, pc, i, codepoint_count, full, quick>>
    /\ UNCHANGED pool_vars

\* ++it
IterIncrement ==
    /\ pc = "iterate"
    /\ value # NoValue
    /\ LET next == operator_increment(range, str_)
       IN  /\ str_' = next.str_
           /\ asserted' = (asserted \/ next.assert)
    /\ advances' = advances + 1
    /\ value' = NoValue
    /\ UNCHANGED it_of
    /\ UNCHANGED <<range, scalars, encoded, pc, i, codepoint_count, full, quick>>
    /\ UNCHANGED pool_vars

\* it != result.range.end() fails: the loop over the range ends
IterEnd ==
    /\ pc = "iterate"
    /\ value = NoValue
    /\ str_ = Iterated.range
    /\ pc' = "iterated"
    /\ UNCHANGED iter_vars
    /\ UNCHANGED <<range, scalars, encoded, i, codepoint_count, full, quick>>
    /\ UNCHANGED pool_vars

InitIter == PoolInit /\ IterInit

NextIter ==
    \/ IterBegin
    \/ IterDereference
    \/ IterIncrement
    \/ IterEnd

SpecIter == InitIter /\ [][NextIter]_vars

(* --------------------------- pool properties --------------------------- *)

\* C1: full deduplication.  Any two get_string calls on one pool made with
\* byte-identical content return handles with the same data address and the
\* same size, whatever overloads made the calls and whatever list the pool
\* was constructed from.
C1_FullDeduplication ==
    \A h1 \in handles : \A h2 \in handles :
        h1.content = h2.content => (h1.data = h2.data /\ h1.size = h2.size)

\* A literal call and a later copying call were made with the same
\* non-empty content, in a pool constructed from a list.
C1_Witness ==
    \E h1 \in handles : \E h2 \in handles :
        /\ h1.op = "string_literal" /\ h2.op = "string_key"
        /\ h1.call < h2.call
        /\ h1.content = h2.content /\ h1.content # <<>>

\* The bytes a handle refers to are still the content it was issued for.
HandlesIntact ==
    \A h \in handles :
        /\ h.size = Len(h.content)
        /\ View(page_, h.data, h.size) = h.content

\* A step only appends: no page disappears, a page that is not the current
\* one is left as it is, and in the current page the bytes already handed
\* out are left as they are.
AppendOnly ==
    /\ Len(page_') >= Len(page_)
    /\ \A k \in 1..Len(page_) :
        /\ k < Len(page_) => page_'[k] = page_[k]
        /\ page_'[k].remaining <= page_[k].remaining
        /\ \A j \in 1..(page_size - page_[k].remaining) :
                page_'[k].buffer[j] = page_[k].buffer[j]
    /\ (Len(page_') > Len(page_) /\ Len(page_) > 0) =>
            page_'[Len(page_)] = page_[Len(page_)]

\* C2: handle stability.  Once get_string has returned a handle, every later
\* get_string leaves the bytes at the handle's address unchanged, also when
\* it allocates a new page; pages are only appended to and an older page is
\* never written again.
C2_HandleStability == [][AppendOnly]_vars /\ []HandlesIntact

\* A handle into the first page is still there after a second page was
\* allocated and written.
C2_Witness ==
    /\ Len(page_) >= 2
    /\ \E h \in handles : h.data.region = 1 /\ h.size > 0
    /\ \E h \in handles : h.data.region = 2

\* C3: uniqueness.  Two get_string calls on one pool return handles that
\* compare equal with operator== (same data address) exactly when the
\* calls' contents are equal; the empty string and prefixes of other
\* contents are no exception.
C3_Uniqueness ==
    \A h1 \in handles : \A h2 \in handles :
        fixed_string_eq(h1, h2) <=> (h1.content = h2.content)

\* The empty string, "a" and "ab" were all interned, the empty string in a
\* page.
C3_Witness ==
    /\ \E h \in handles : h.content = <<>> /\ h.data.region >= 1
    /\ \E h \in handles : h.content = <<97>>
    /\ \E h \in handles : h.content = <<97, 98>>

\* C4 as stated: every handle obtained from get_string(string_literal) has
\* the data address of that literal's own storage.
C4_ZeroCopyAlways ==
    call.op = "string_literal" => call.ret.data = Literals[call.lit].data

\* C4, amended: get_string(string_literal) copies nothing into a page, and
\* its handle has the literal's own storage address when the content was
\* not in the pool before the call; when it was, the handle has the address
\* of the entry already in the pool.
C4_ZeroCopyOnMiss ==
    [][(call'.op = "string_literal" /\ ncalls' = ncalls + 1) =>
        LET key == Literals[call'.lit]
            it  == find(map_, page_, key)
        IN  /\ page_' = page_
            /\ it = {} => call'.ret.data = key.data
            /\ it # {} => \E e \in it : call'.ret.data = e.data
      ]_vars

\* A literal call missed in a pool that already holds a page, and got the
\* literal's own address.
C4_Witness ==
    /\ call.op = "string_literal"
    /\ call.ret.data = Literals[call.lit].data
    /\ Len(page_) >= 1
    /\ \A h \in handles : h.call < ncalls => h.content # call.bytes

RECURSIVE repeated_get_string(_, _, _)
\* get_string(string_literal) on each list element in order, from pool on.
repeated_get_string(pool, list, k) ==
    IF k > Len(list) THEN pool
    ELSE LET r == get_string_literal(pool.map_, pool.page_, list[k])
         IN  repeated_get_string([map_ |-> r.map_, page_ |-> r.page_], list, k + 1)

\* C5: a pool constructed from a list of literals has the index of an empty
\* pool after get_string(string_literal) on each list element in order; for
\* contents that occur more than once in the list the first element's address
\* is the one kept; and no page is allocated.
C5_BulkConstruction ==
    call.op = "string_pool(list)" =>
        LET list == [k \in 1..Len(call.list) |-> Literals[call.list[k]]]
            rep  == repeated_get_string([map_ |-> {}, page_ |-> <<>>], list, 1)
        IN  /\ map_ = rep.map_
            /\ page_ = <<>>
            /\ rep.page_ = <<>>
            /\ \A k \in 1..Len(list) :
                LET first == CHOOSE j \in 1..k :
                        /\ list[j].bytes = list[k].bytes
                        /\ \A m \in 1..(j - 1) : list[m].bytes # list[k].bytes
                IN  entry(list[first].data, list[first].size, list[first].hash) \in map_

\* The pool was constructed from a list in which one content occurs at two
\* different addresses.
C5_Witness ==
    /\ call.op = "string_pool(list)"
    /\ \E j \in 1..Len(call.list) : \E k \in 1..Len(call.list) :
        /\ j < k
        /\ Literals[call.list[j]].bytes = Literals[call.list[k]].bytes
        /\ Literals[call.list[j]].data # Literals[call.list[k]].data

(* ------------------------- validator properties ------------------------ *)

\* b is 10xxxxxx
IsContinuation(b) == b >= 128 /\ b <= 191

\* The bytes of r[1..n] that are not continuation bytes: one per sequence.
LeadCount(r, n) == Cardinality({k \in 1..n : ~IsContinuation(r[k])})

\* A lead byte of an n-byte sequence stands at offset p of r, followed by
\* n - 1 continuation bytes.
WellFormedAt(r, p, n, lo, hi) ==
    /\ p + n <= Len(r)
    /\ r[p + 1] >= lo /\ r[p + 1] <= hi
    /\ \A k \in 2..n : IsContinuation(r[p + k])

\* The value of the payload bits of the well-formed sequence at offset p.
ValueAt(r, p) ==
    LET b == r[p + 1] IN
    IF b < 128 THEN b
    ELSE IF b < 224 THEN (b - 192) * 64 + (r[p + 2] - 128)
    ELSE IF b < 240 THEN
        (b - 224) * 4096 + (r[p + 2] - 128) * 64 + (r[p + 3] - 128)
    ELSE (b - 240) * 262144 + (r[p + 2] - 128) * 4096
            + (r[p + 3] - 128) * 64 + (r[p + 4] - 128)

\* C6: round trip.  For the standard UTF-8 encoding of any sequence of
\* scalar values, the empty one included, validate returns success, a
\* codepoint_count equal to the number of scalar values, and a range that
\* spans the whole input.
C6_RoundTrip ==
    (encoded /\ full.error # "none") =>
        full = [error |-> "success", range |-> Len(range),
                codepoint_count |-> Len(scalars)]

\* validate has returned for the encoding of a 4-byte and a 3-byte scalar.
C6_Witness ==
    /\ encoded /\ pc = "done"
    /\ Len(scalars) = 2 /\ Len(range) = 7
    /\ full.error = "success"

\* The sequence at offset p of r is an overlong encoding.
OverlongAt(r, p) ==
    \/ WellFormedAt(r, p, 2, 192, 223) /\ ValueAt(r, p) <= 127
    \/ WellFormedAt(r, p, 3, 224, 239) /\ ValueAt(r, p) <= 2047
    \/ WellFormedAt(r, p, 4, 240, 247) /\ ValueAt(r, p) <= 65535

\* C7: the full validator rejects every overlong encoding.  When validate
\* comes to a structurally well-formed 2-byte sequence whose value is
\* <= 0x7F, 3-byte sequence whose value is <= 0x7FF or 4-byte sequence whose
\* value is <= 0xFFFF, it returns overlong_encoding, the range ending at the
\* start of that sequence, and the count of the codepoints before it.
C7_OverlongRejected ==
    [][(pc = "validate" /\ i < Len(range) /\ OverlongAt(range, i)) =>
        /\ pc' = "validate_quick"
        /\ full' = [error |-> "overlong_enocoding", range |-> i,
                    codepoint_count |-> codepoint_count]
      ]_vars

\* The well-formed 4-byte sequence at offset p of r has lead 0xF4 and a
\* second byte >= 0x90, or a lead in 0xF5..0xF7.
TooLargeAt(r, p) ==
    /\ WellFormedAt(r, p, 4, 240, 247)
    /\ \/ r[p + 1] = 244 /\ r[p + 2] >= 144
       \/ r[p + 1] >= 245

\* Every sequence of an accepted input has a value in [0, 0x10FFFF].
AcceptedInRange ==
    full.error = "success" =>
        \A p \in 0..(Len(range) - 1) :
            ~IsContinuation(range[p + 1]) => ValueAt(range, p) <= 1114111

\* C8: the full validator rejects every structurally well-formed 4-byte
\* sequence whose value exceeds 0x10FFFF (lead 0xF4 with a second byte
\* >= 0x90, leads 0xF5..0xF7) with invalid_codepoint at the start of the
\* sequence, so every sequence of an input validate accepts has a value in
\* [0, 0x10FFFF].
C8_InvalidCodepointRejected ==
    /\ [][(pc = "validate" /\ i < Len(range) /\ TooLargeAt(range, i)) =>
            /\ pc' = "validate_quick"
            /\ full' = [error |-> "invalid_codepoint", range |-> i,
                        codepoint_count |-> codepoint_count]
         ]_vars
    /\ []AcceptedInRange

\* validate returned invalid_codepoint for F4 90 .. .. after it consumed at
\* least one codepoint.
C8_Witness ==
    /\ full.error = "invalid_codepoint"
    /\ full.range >= 1 /\ full.codepoint_count >= 1
    /\ range[full.range + 1] = 244 /\ range[full.range + 2] = 144

\* What C9 says of one validation_result.
ResultShape(res) ==
    res.error # "none" =>
        /\ 0 <= res.codepoint_count
        /\ res.codepoint_count <= res.range
        /\ res.range <= Len(range)
        /\ (res.error = "success") <=> (res.range = Len(range))
        /\ res.error # "success" => range[res.range + 1] >= 128
        /\ res.codepoint_count = LeadCount(range, res.range)

\* C9: for every input and both validators, the returned range starts at
\* the start of the input and ends at the end of the input exactly when the
\* error is success, and otherwise at the offset of the failure;
\* codepoint_count is the number of sequences before that offset, and
\* 0 <= codepoint_count <= range length <= input size.
C9_ResultShape == ResultShape(full) /\ ResultShape(quick)

\* Both validators failed after at least one multi-byte sequence, at
\* different offsets.
C9_Witness ==
    /\ pc = "done"
    /\ full.error \notin {"none", "success"}
    /\ quick.error \notin {"none", "success"}
    /\ full.range < quick.range
    /\ full.codepoint_count >= 1 /\ full.codepoint_count < full.range

\* The errors that do not come from the two checks validate_quick skips.
StructuralOutcomes ==
    {"success", "unexpected_continuation_byte", "unexpected_non_continuation_byte",
     "unexpected_end", "invalid_byte"}

\* C10: validate_quick differs from validate only by skipping the overlong
\* and invalid-codepoint checks.  When validate returns success,
\* unexpected_continuation_byte, unexpected_non_continuation_byte,
\* unexpected_end or invalid_byte, validate_quick returns the same error,
\* range and codepoint_count; validate_quick never returns overlong_encoding
\* or invalid_codepoint; and its range is never shorter than validate's.
C10_QuickAgrees ==
    pc = "done" =>
        /\ full.error \in StructuralOutcomes => quick = full
        /\ quick.error \in StructuralOutcomes
        /\ quick.range >= full.range

\* Both validators reported the same structural error after a 3-byte
\* sequence.
C10_Witness ==
    /\ pc = "done"
    /\ full.error = "unexpected_non_continuation_byte"
    /\ full.range = 3 /\ full.codepoint_count = 1
    /\ quick = full

\* The result the validator named v has returned in the next state.
ResultOf(v) == IF v = "validate" THEN full' ELSE quick'

\* A sequence of n bytes with a lead in lo..hi starts at offset p of r.
LeadAt(r, p, lo, hi) == p < Len(r) /\ r[p + 1] >= lo /\ r[p + 1] <= hi

\* The validator named v, at a byte that cannot start a sequence, returns
\* the error for that byte, the range up to it and the codepoints before it.
LeadByteRejected(v) ==
    (pc = v /\ i < Len(range) /\ (IsContinuation(range[i + 1]) \/ range[i + 1] >= 248)) =>
        /\ pc' # v
        /\ ResultOf(v) =
            [error |-> IF IsContinuation(range[i + 1])
                          THEN "unexpected_continuation_byte" ELSE "invalid_byte",
             range |-> i,
             codepoint_count |-> LeadCount(range, i)]

\* The two documented scenarios of C11.
LeadByteScenarios ==
    pc = "done" =>
        /\ range = <<65, 128>> =>
            /\ full = [error |-> "unexpected_continuation_byte", range |-> 1,
                       codepoint_count |-> 1]
            /\ quick = full
        /\ range = <<255>> =>
            /\ full = [error |-> "invalid_byte", range |-> 0, codepoint_count |-> 0]
            /\ quick = full

\* C11: when the byte at a sequence start is a continuation byte
\* (0x80-0xBF) the validators fail with unexpected_continuation_byte, and
\* when it is >= 0xF8 they fail with invalid_byte; the range ends at that
\* byte's offset and codepoint_count is the number of codepoints consumed
\* before it.  41 80 gives offset 1, count 1; FF gives offset 0, count 0.
C11_LeadByteErrors ==
    /\ [][LeadByteRejected("validate") /\ LeadByteRejected("validate_quick")]_vars
    /\ []LeadByteScenarios

\* Both validators returned invalid_byte after they consumed a multi-byte
\* sequence.
C11_Witness ==
    /\ pc = "done"
    /\ full.error = "invalid_byte" /\ quick = full
    /\ full.range >= 2 /\ full.codepoint_count >= 1
    /\ full.codepoint_count < full.range

\* The length of the sequence a multi-byte lead announces.
SequenceLength(b) == IF b < 224 THEN 2 ELSE IF b < 240 THEN 3 ELSE 4

\* The validator named v, at a multi-byte lead: unexpected_end when the
\* sequence is cut short, else unexpected_non_continuation_byte when a
\* following byte is not 10xxxxxx, both at the start of the sequence; the
\* codepoint checks report only well-formed sequences.
StructuralOrder(v) ==
    (pc = v /\ LeadAt(range, i, 192, 247)) =>
        LET n == SequenceLength(range[i + 1])
            short == i + n > Len(range)
            broken == \E k \in 2..n : ~IsContinuation(range[i + k])
            res == ResultOf(v)
            here(error) == /\ pc' # v
                           /\ res = [error |-> error, range |-> i,
                                     codepoint_count |-> codepoint_count]
        IN  /\ short => here("unexpected_end")
            /\ (~short /\ broken) => here("unexpected_non_continuation_byte")
            /\ (~short /\ ~broken) =>
                    \/ pc' = v /\ i' = i + n
                    \/ pc' # v /\ res.range = i
                        /\ res.error \in {"overlong_enocoding", "invalid_codepoint"}

\* The documented scenario of C12.
TruncatedScenario ==
    (pc = "done" /\ range = <<226, 130>>) =>
        /\ full = [error |-> "unexpected_end", range |-> 0, codepoint_count |-> 0]
        /\ quick = full

\* C12: for a multi-byte lead (0xC0-0xF7) the structural checks come in a
\* fixed order and report at the start of the sequence: unexpected_end when
\* fewer bytes remain than the sequence needs, also when a byte that is
\* present is not a continuation byte; otherwise
\* unexpected_non_continuation_byte when a following byte is not 10xxxxxx;
\* only then the overlong and codepoint checks.  E2 82 gives unexpected_end
\* at offset 0.
C12_StructuralOrder ==
    /\ [][StructuralOrder("validate") /\ StructuralOrder("validate_quick")]_vars
    /\ []TruncatedScenario

\* validate returned unexpected_end for a 3-byte lead that is followed by
\* one byte, which is not a continuation byte.
C12_Witness ==
    /\ pc = "done"
    /\ full.error = "unexpected_end" /\ quick = full
    /\ full.range >= 1
    /\ Len(range) = full.range + 2
    /\ range[full.range + 1] = 224
    /\ ~IsContinuation(range[full.range + 2])

(* -------------------------- iterator properties ------------------------ *)

\* C13: for the range and codepoint_count returned by validate or
\* validate_quick on any input, an iterator started at range.begin() and
\* advanced with operator++ is equal to range.end() after exactly
\* codepoint_count advances, and never steps past range.end() nor takes an
\* assert(false) branch.
C13_IterationReachesEnd ==
    pc \in {"iterate", "iterated"} =>
        /\ ~asserted
        /\ str_ <= Iterated.range
        /\ advances <= Iterated.codepoint_count
        /\ (str_ = Iterated.range) <=> (advances = Iterated.codepoint_count)
        /\ pc = "iterated" => str_ = Iterated.range

\* The iteration over the prefix validate_quick returned for an input it
\* rejected has ended, after multi-byte sequences.
C13_Witness ==
    /\ pc = "iterated" /\ it_of = "validate_quick"
    /\ quick.error \notin {"none", "success"}
    /\ advances >= 2 /\ advances < str_
    /\ str_ = quick.range

\* The codepoint validate assembles for the sequence at offset p of r.
Assembled(r, p) ==
    LET b1 == at(r, p) IN
    IF b1 < 128 THEN b1
    ELSE IF b1 < 224 THEN codepoint2(b1, at(r, p + 1))
    ELSE IF b1 < 240 THEN codepoint3(b1, at(r, p + 1), at(r, p + 2))
    ELSE codepoint4(b1, at(r, p + 1), at(r, p + 2), at(r, p + 3))

\* What operator* returned at the start of a sequence of an accepted input.
DereferencedValue ==
    (pc = "iterate" /\ it_of = "validate" /\ full.error = "success"
        /\ value # NoValue) =>
        /\ value = ValueAt(range, str_)
        /\ value = Assembled(range, str_)
        /\ value >= 0 /\ value <= 1114111

\* C18: for every input validate accepts, dereferencing the iterator at the
\* start of each sequence yields the codepoint made of the low bits of the
\* lead byte and the low 6 bits of each continuation byte, for the length
\* class of the lead byte; it is the value validate assembled for that
\* sequence and lies in [0, 0x10FFFF]; dereferencing does not move the
\* cursor.
C18_Dereference ==
    /\ []DereferencedValue
    /\ [][(value = NoValue /\ value' # NoValue) =>
            (str_' = str_ /\ advances' = advances)]_vars

\* operator* was called at a 4-byte sequence that follows another sequence
\* of an accepted input.
C18_Witness ==
    /\ pc = "iterate" /\ it_of = "validate" /\ full.error = "success"
    /\ str_ >= 1 /\ value >= 65536

(* --------------------------- longest prefix ---------------------------- *)

\* The first n bytes of r.
Prefix(r, n) == SubSeq(r, 1, n)

\* The validator v run from start to return on r.
Run(v, r) == IF v = "validate" THEN validate(r) ELSE validate_quick(r)

\* res, returned by the validator v for r, names the longest prefix of r
\* that v accepts.
LongestAcceptedPrefix(v, r, res) ==
    /\ Run(v, Prefix(r, res.range)) =
           [error |-> "success", range |-> res.range,
            codepoint_count |-> res.codepoint_count]
    /\ res.error # "success" =>
           \A n \in (res.range + 1)..Len(r) :
               Run(v, Prefix(r, n)).error # "success"

\* C17: the range a validator returns is the longest prefix the same
\* validator accepts: run on exactly the returned prefix it yields success
\* with the same codepoint_count and the same range, and when the result
\* was an error it yields success on no longer prefix of the input.
C17_LongestPrefix ==
    [](pc = "done" =>
        /\ LongestAcceptedPrefix("validate", range, full)
        /\ LongestAcceptedPrefix("validate_quick", range, quick))

\* Both validators rejected an input after accepting two bytes or more of
\* it, with two bytes or more left over.
C17_Witness ==
    /\ pc = "done"
    /\ full.error \notin {"none", "success"}
    /\ quick.error \notin {"none", "success"}
    /\ full.range >= 2 /\ quick.range >= 2
    /\ Len(range) >= full.range + 2

(* ----------------------------- termination ---------------------------- *)

\* A validator is running.
InLoop == pc \in {"validate", "validate_quick"}

\* A pass of the loop either returns or moves the cursor forward by 1 to 4.
PassReturnsOrAdvances ==
    InLoop => \/ pc' # pc
              \/ (pc' = pc /\ i' - i \in 1..4)

\* The cursor is within the input and the next pass reads inside it.
CursorInRange ==
    InLoop =>
        /\ i >= 0 /\ i <= size(range)
        /\ \A index \in reads(range, i) : index >= 0 /\ index < size(range)

\* C19: validate and validate_quick terminate on every finite input: each
\* pass of the loop returns or strictly increases the cursor i by 1 to 4,
\* i never exceeds the input size, and no byte at an index >= size is read.
C19_Termination ==
    /\ [][PassReturnsOrAdvances]_vars
    /\ []CursorInRange

\* The cursor of validate_quick stands at the end of an input whose last
\* sequence has four bytes and follows other sequences.
C19_Witness ==
    /\ pc = "validate_quick"
    /\ i = size(range) /\ i >= 6
    /\ at(range, i - 4) >= 240
    /\ codepoint_count >= 2

(* --------------------------- page allocation --------------------------- *)

\* The step is a get_string call.
IsGetString == ncalls' = ncalls + 1 /\ call'.op \in {"string_literal", "string_key"}

\* The content handed to the call is not in the index before the call.
IsMiss == \A e \in map_ : View(page_, e.data, e.size) # call'.bytes

\* There is no current page, or size + 1 is not strictly less than the
\* remaining count of the current page.
NeedsPage(len) ==
    \/ Len(page_) = 0
    \/ ~(len + 1 < page_[Len(page_)].remaining)

\* A miss of get_string(string_key) takes a new page exactly when one is
\* needed and then stores at its start; otherwise it stores in the current
\* page at offset page_size - remaining.  Pages that are not current are
\* left as they are.
PlacementOnMiss ==
    (IsGetString /\ call'.op = "string_key" /\ IsMiss) =>
        LET len == Len(call'.bytes)
            n   == Len(page_)
        IN  /\ (Len(page_') = n + 1) <=> NeedsPage(len)
            /\ NeedsPage(len) =>
                   /\ call'.ret.data = Addr(n + 1, 0)
                   /\ \A k \in 1..n : page_'[k] = page_[k]
            /\ ~NeedsPage(len) =>
                   /\ Len(page_') = n
                   /\ call'.ret.data = Addr(n, page_size - page_[n].remaining)
                   /\ \A k \in 1..(n - 1) : page_'[k] = page_[k]
            /\ View(page_', call'.ret.data, len) = call'.bytes

\* C15: on a miss get_string(string_key) allocates a new page exactly when
\* there is no current page or size + 1 is not strictly less than the
\* remaining count of the current page; otherwise the content is placed in
\* the current page at offset page_size - remaining.  A string whose
\* size + 1 equals remaining goes to a new page, and free space in older
\* pages is not reused.
C15_PagePlacement == [][PlacementOnMiss]_vars

\* A string whose size + 1 equalled the remaining count of the first page
\* was stored at the start of a second page.
C15_Witness ==
    /\ call.op = "string_key"
    /\ Len(page_) = 2
    /\ Len(call.bytes) + 1 = page_[1].remaining
    /\ call.ret.data = Addr(2, 0)
    /\ page_[2].remaining = page_size - (Len(call.bytes) + 1)

(* ------------------------------ frame ---------------------------------- *)

\* A get_string call whose content is in the index leaves the index and the
\* pages (chain, remaining counts, stored bytes) as they are.
HitChangesNothing ==
    (IsGetString /\ ~IsMiss) => (map_' = map_ /\ page_' = page_)

\* The elements of map_ whose bytes are in a page.
PageBacked == {e \in map_ : e.data.region >= 1}

\* The offsets [address, address + size] of an entry in its page.
Region(e) == e.data.off .. (e.data.off + e.size)

\* Page-backed entries lie in their page buffer, do not share a byte, and
\* end with the terminator.
RegionsDisjoint ==
    /\ \A e \in PageBacked :
        /\ e.data.region <= Len(page_)
        /\ Region(e) \subseteq 0..(page_size - 1)
        /\ ByteAt(page_, Addr(e.data.region, e.data.off + e.size)) = 0
    /\ \A e1, e2 \in PageBacked :
        (e1 # e2 /\ e1.data.region = e2.data.region) =>
            Region(e1) \cap Region(e2) = {}

\* C20: a get_string call that hits the index, by any overload, changes
\* nothing: the index, the page chain, the remaining count of the current
\* page and all stored bytes are unchanged; and in every reachable state the
\* byte regions [address, address + size] of page-backed entries are
\* pairwise disjoint, with the byte at address + size equal to 0.
C20_HitFrame ==
    /\ [][HitChangesNothing]_vars
    /\ []RegionsDisjoint

\* get_string(string_key) hit an entry stored in a page by an earlier call,
\* in a pool with two page-backed entries.
C20_Witness ==
    /\ call.op = "string_key"
    /\ call.ret.data.region >= 1
    /\ \E h \in handles :
        /\ h.call < ncalls
        /\ h.content = call.bytes
        /\ h.data = call.ret.data
    /\ Cardinality(PageBacked) >= 2

(* --------------------------- page accounting --------------------------- *)

RECURSIVE HandedOut(_)
\* The bytes push_back handed out for the entries in S: payload and
\* terminator of each.
HandedOut(S) ==
    IF S = {} THEN 0
    ELSE LET e == CHOOSE x \in S : TRUE
         IN  e.size + 1 + HandedOut(S \ {e})

\* The entries stored in the k-th page.
EntriesOf(k) == {e \in map_ : e.data.region = k}

\* A fresh page says it cannot hold a string exactly when the string has
\* page_size - 1 bytes or more.
FreshPageRefuses ==
    \A n \in 0..(page_size + 1) :
        (~can_hold(fixed_page, n)) <=> (n >= page_size - 1)

\* What was handed out of a page and what remains make up the page.
Accounted(k) == HandedOut(EntriesOf(k)) + page_[k].remaining = page_size

\* Every string handed to get_string so far left room for its terminator
\* and one byte more in a fresh page.
AllFitFreshPage ==
    /\ \A h \in handles : can_hold(fixed_page, Len(h.content))
    /\ can_hold(fixed_page, Len(call.bytes))

\* A string as long as page_size or longer was handed to the last call.
LastAsLongAsPage == call.op = "string_key" /\ Len(call.bytes) >= page_size

\* C14 as stated: a fresh page reports can_hold(size) = false exactly when
\* size >= page_size - 1, and in every reachable pool state each page has
\* 0 < remaining <= page_size and handed-out bytes + remaining = page_size,
\* push_back never writing outside the buffer, whatever the string lengths.
C14_NeverUnderflows ==
    /\ FreshPageRefuses
    /\ ~overrun
    /\ \A k \in 1..Len(page_) :
        /\ 0 < page_[k].remaining /\ page_[k].remaining <= page_size
        /\ Accounted(k)

\* C14, amended: a fresh page reports can_hold(size) = false exactly when
\* size >= page_size - 1, but get_string stores such a string all the same.
\* While every string handed to get_string has size < page_size - 1, each
\* page has 0 < remaining <= page_size and handed-out bytes + remaining =
\* page_size.  A string of size page_size - 1 fills a fresh page and leaves
\* remaining = 0; only a string of size >= page_size makes push_back write
\* outside the buffer.
C14_UnderflowsOnlyWhenTooLong ==
    /\ FreshPageRefuses
    /\ AllFitFreshPage =>
        /\ ~overrun
        /\ \A k \in 1..Len(page_) :
            /\ 0 < page_[k].remaining /\ page_[k].remaining <= page_size
            /\ Accounted(k)
    /\ overrun => LastAsLongAsPage
    /\ ~overrun =>
        \A k \in 1..Len(page_) :
            /\ 0 <= page_[k].remaining /\ page_[k].remaining <= page_size
            /\ Accounted(k)
            /\ page_[k].remaining = 0 =>
                   \E e \in EntriesOf(k) : e.size = page_size - 1 /\ e.data.off = 0

\* A string of page_size - 1 bytes was stored in a page of its own, leaving
\* remaining = 0, behind a page that holds a shorter string.
C14_Witness ==
    /\ ~overrun
    /\ call.op = "string_key" /\ Len(call.bytes) = page_size - 1
    /\ Len(page_) = 2
    /\ page_[2].remaining = 0
    /\ page_[1].remaining > 0 /\ page_[1].remaining < page_size

(* ------------------------------ threads -------------------------------- *)

\* Equal contents have one address.
Deduplicated ==
    \A h1, h2 \in handles : h1.content = h2.content => h1.data = h2.data

\* Every handle reads back the content it was returned for.
HandlesReadBack ==
    \A h \in handles : View(page_, h.data, h.size) = h.content

\* What holds of the pool in every execution in which get_string calls do
\* not overlap.
SequentialInvariant ==
    /\ Deduplicated
    /\ HandlesReadBack
    /\ ~overrun
    /\ \A k \in 1..Len(page_) :
        0 < page_[k].remaining /\ page_[k].remaining <= page_size

\* C16: get_string calls on one pool that are interleaved at the
\* granularity of their steps (index probe, page allocation, copy into
\* page, index insert) are unsafe: what holds in every execution whose
\* calls do not overlap is violated in a reachable state of an execution
\* whose calls do.  This is the first half; the reachable violation is
\* C16_Witness.
C16_SafeWhenSequential == ~overlapped => SequentialInvariant

\* Two calls that overlapped returned handles with different addresses for
\* the same content.
C16_Witness ==
    /\ overlapped
    /\ ~overrun
    /\ \E h1, h2 \in handles :
        /\ h1.content = h2.content
        /\ h1.content # <<>>
        /\ h1.data # h2.data

\* Two calls that overlapped both found room in the current page, and the
\* second copy ran over the end of the buffer.
OverlapOverruns == overlapped /\ overrun

====
